---------------------------- MODULE Spec2Model ----------------------------
(***************************************************************************)
(* A model of the Merkle Binary Indexed Tree of src/src/merkle_bit.rs over *)
(* the buffered HashDB of src/src/tree.rs.                                 *)
(*                                                                         *)
(* A hash is modelled by its preimage (a collision-free hash): the         *)
(* location of a node is the tuple of the byte strings fed to the hasher,  *)
(*   <<"d", key, value>>, <<"l", key, data location>>,                     *)
(*   <<"b", zero location, one location>>.                                 *)
(* A key is a tuple of KEY_LEN bytes, a value a tuple of bytes.            *)
(***************************************************************************)
EXTENDS Integers, Sequences, FiniteSets, TLC

\* Bounds of the model: the number of insert calls and of remove calls in a run.
MaxInserts == 2
MaxRemoves == 1

\* Key length in bytes (crate::constants::KEY_LEN), taken as 2 to keep the key
\* space small; every key of the model has this length.
KEY_LEN == 2

\* MerkleBIT.depth: the maximum permitted depth, chosen as the key length in bits.
depth == 8 * KEY_LEN

\* The keys and values the operations are called with.  A tree built by one insert
\* into the empty store draws its batch from Keys; runs of several calls draw
\* their batches from FewKeys.
Keys == { <<0, 0>>, <<0, 1>>, <<128, 0>>, <<128, 1>>, <<255, 255>> }
FewKeys == { <<0, 0>>, <<128, 0>>, <<128, 1>> }
Values == { 1, 2 }

\* Option<T>: None is the empty tuple, Some(x) the one-element tuple.
None == << >>
Some(x) == << x >>

-----------------------------------------------------------------------------
(* Bytes, bits and the order of keys.                                      *)

\* u8 arithmetic wraps.
U8(n) == n % 256

\* bit i (0 = most significant) of byte b
ByteBit(b, i) == (b \div (2 ^ (7 - i))) % 2

\* a ^ b on two bytes
Xor(a, b) ==
    LET bit(i) == IF ByteBit(a, i) = ByteBit(b, i) THEN 0 ELSE 1
        RECURSIVE sum(_)
        sum(i) == IF i > 7 THEN 0 ELSE bit(i) * (2 ^ (7 - i)) + sum(i + 1)
    IN sum(0)

\* floor(log2(x)) of a non-zero byte
fast_log_2(x) == CHOOSE e \in 0..7 : 2 ^ e <= x /\ x < 2 ^ (e + 1)

\* true iff bit `bit` of `key` is 0
choose_zero(key, bit) == ByteBit(key[(bit \div 8) + 1], bit % 8) = 0

\* The first bit at which two keys differ; 8 * KEY_LEN when they are identical.
first_diff_bit(a, b) ==
    LET RECURSIVE scan(_)
        scan(j) ==
            IF j > KEY_LEN THEN 8 * KEY_LEN
            ELSE IF a[j] = b[j] THEN scan(j + 1)
            ELSE (j - 1) * 8 + (7 - fast_log_2(Xor(a[j], b[j])))
    IN scan(1)

\* [u8; KEY_LEN] is ordered lexicographically.
KeyLess(a, b) ==
    \E j \in 1..KEY_LEN : a[j] < b[j] /\ \A i \in 1..(j - 1) : a[i] = b[i]

\* The keys of a set in increasing order.
RECURSIVE SortedSeq(_)
SortedSeq(S) ==
    IF S = {} THEN << >>
    ELSE LET m == CHOOSE x \in S : \A y \in S \ {x} : KeyLess(x, y)
         IN << m >> \o SortedSeq(S \ {m})

Range(s) == { s[i] : i \in DOMAIN s }

\* keys.sort(): a stable sort of a sequence of keys (equal keys stay, adjacent).
RECURSIVE SortKeys(_)
SortKeys(s) ==
    IF Len(s) = 0 THEN << >>
    ELSE LET i == CHOOSE i \in DOMAIN s :
                      /\ \A j \in DOMAIN s : ~KeyLess(s[j], s[i])
                      /\ \A j \in 1..(i - 1) : s[j] # s[i]
         IN << s[i] >> \o SortKeys(SubSeq(s, 1, i - 1) \o SubSeq(s, i + 1, Len(s)))

\* split_pairs: the keys routed to the zero child and those routed to the one child.
split_pairs(sorted_keys, bit) ==
    LET isZero(k) == choose_zero(k, bit)
        isOne(k) == ~choose_zero(k, bit)
    IN [zeros |-> SelectSeq(sorted_keys, isZero), ones |-> SelectSeq(sorted_keys, isOne)]

\* calc_min_split_index: the least first differing bit between a key and the branch key.
calc_min_split_index(keys, branch_key) ==
    LET ds == { first_diff_bit(keys[i], branch_key) : i \in DOMAIN keys }
    IN CHOOSE m \in ds : \A d \in ds : m <= d

\* check_descendants: the keys that agree with the branch key up to the split index.
check_descendants(keys, branch_split_index, branch_key, min_split_index) ==
    LET below(k) == first_diff_bit(k, branch_key) >= branch_split_index
    IN SelectSeq(keys, below)


-----------------------------------------------------------------------------
(* Nodes and the database (HashDB).                                        *)

\* Value encoding: a value is stored as its byte string.
Encode(v) == << v >>
Decode(bytes) == bytes[1]

BranchNode(count, zero, one, split_index, key) ==
    [tag |-> "b", count |-> count, zero |-> zero, one |-> one,
     split_index |-> split_index, key |-> key]
LeafNode(key, data) == [tag |-> "l", key |-> key, data |-> data]
DataNode(value) == [tag |-> "d", value |-> value]

\* NodeType: a variant and its reference count
Node(variant, references) == [references |-> references, node |-> variant]

\* A data hash that leaves the key out.
DataLocationOfValue(key, value) == << "d", value >>

\* The hashes: the location of a data, leaf and branch node.
DataLocation(key, value) == << "d", key, value >>
LeafLocation(key, data_location) == << "l", key, data_location >>
BranchLocation(zero, one) == << "b", zero, one >>

\* A HashDB value: the committed map and the buffered inserts.
EmptyMap == [l \in {} |-> 0]
NewDb == [map |-> EmptyMap, pending_inserts |-> << >>]

\* HashDB::get_node reads the committed map only.
has_node(db, key) == key \in DOMAIN db.map
get_node(db, key) == db.map[key]

\* HashDB::insert buffers the write.
db_insert(db, key, value) ==
    [db EXCEPT !.pending_inserts = Append(@, << key, value >>)]

\* HashDB::remove removes from the committed map at once.
db_remove(db, key) ==
    [db EXCEPT !.map = [l \in (DOMAIN db.map) \ {key} |-> db.map[l]]]

\* HashDB::batch_write applies the buffered inserts in order and empties the buffer.
RECURSIVE ApplyPending(_, _)
ApplyPending(m, entries) ==
    IF Len(entries) = 0 THEN m
    ELSE LET e == Head(entries)
         IN ApplyPending([l \in (DOMAIN m) \cup {e[1]} |-> IF l = e[1] THEN e[2] ELSE m[l]],
                         Tail(entries))

batch_write(db) ==
    [map |-> ApplyPending(db.map, db.pending_inserts), pending_inserts |-> << >>]

-----------------------------------------------------------------------------
(* MerkleBIT::get                                                          *)

TreeCell(location, keys, node, d) ==
    [location |-> location, keys |-> keys, node |-> node, depth |-> d]

Ok(v) == [ok |-> TRUE, val |-> v, err |-> ""]
Err(e) == [ok |-> FALSE, val |-> None, err |-> e]

\* generate_leaf_map: every requested key maps to None
generate_leaf_map(keys) == [k \in Range(keys) |-> None]

\* The keys of a cell that get passes on at a branch, all of them.
GetDescendantsAll(cell) == cell.keys

\* The keys of a cell that get passes on at a branch: its descendants.
GetDescendants(cell) ==
    LET branch == cell.node.node
        min_split_index == calc_min_split_index(cell.keys, branch.key)
    IN check_descendants(cell.keys, branch.split_index, branch.key, min_split_index)

\* One branch step of get: the cells pushed to the front of the queue.
GetBranchCells(db, cell, rest) ==
    LET branch == cell.node.node
        descendants == GetDescendants(cell)
        sp == split_pairs(descendants, branch.split_index)
        q1 == IF has_node(db, branch.one) /\ Len(sp.ones) > 0
              THEN << TreeCell(branch.one, sp.ones, get_node(db, branch.one),
                               cell.depth + 1) >> \o rest
              ELSE rest
        q2 == IF has_node(db, branch.zero) /\ Len(sp.zeros) > 0
              THEN << TreeCell(branch.zero, sp.zeros, get_node(db, branch.zero),
                               cell.depth + 1) >> \o q1
              ELSE q1
    IN IF Len(descendants) = 0 THEN rest ELSE q2

\* The while loop of get.
RECURSIVE GetLoop(_, _, _, _)
GetLoop(db, keys, cell_queue, leaf_map) ==
    IF Len(cell_queue) = 0 THEN Ok(leaf_map)
    ELSE
      LET tree_cell == Head(cell_queue)
          rest == Tail(cell_queue)
          n == tree_cell.node.node
      IN IF tree_cell.depth > depth THEN Err("Depth of merkle tree exceeded")
         ELSE IF n.tag = "b"
           THEN GetLoop(db, keys, GetBranchCells(db, tree_cell, rest), leaf_map)
         ELSE IF n.tag = "l"
           THEN IF has_node(db, n.data) /\ get_node(db, n.data).node.tag = "d"
                THEN LET value == Decode(get_node(db, n.data).node.value)
                     IN GetLoop(db, keys, rest,
                                IF n.key \in Range(keys)
                                THEN [leaf_map EXCEPT ![n.key] = Some(value)]
                                ELSE leaf_map)
                ELSE Err("Corrupt merkle tree")
         ELSE Err("Corrupt merkle tree")

\* A get that treats a root that is not in the store as an error.
get_known(db, root_hash, keys) ==
    IF Len(keys) = 0 THEN Ok(EmptyMap)
    ELSE LET sorted == SortKeys(keys)
         IN IF ~has_node(db, root_hash) THEN Err("Could not find root")
            ELSE GetLoop(db, sorted,
                         << TreeCell(root_hash, sorted, get_node(db, root_hash), 0) >>,
                         generate_leaf_map(keys))

get(db, root_hash, keys) ==
    IF Len(keys) = 0 THEN Ok(EmptyMap)
    ELSE LET sorted == SortKeys(keys)
         IN IF ~has_node(db, root_hash) THEN Ok(generate_leaf_map(keys))
            ELSE GetLoop(db, sorted,
                         << TreeCell(root_hash, sorted, get_node(db, root_hash), 0) >>,
                         generate_leaf_map(keys))

-----------------------------------------------------------------------------
(* MerkleBIT::insert_leaves (the sequential build)                         *)

TreeRef(key, location, node_count, count) ==
    [key |-> key, location |-> location, node_count |-> node_count, count |-> count]

\* The references a new data or leaf node is written with.
NewReferences(db, location) ==
    IF has_node(db, location) THEN get_node(db, location).references + 1 ELSE 1

\* The body of the for loop: one key's data node and leaf node.
InsertLeaf(db, key, value) ==
    LET data_node_location == DataLocation(key, Encode(value))
        leaf_node_location == LeafLocation(key, data_node_location)
        data_node == Node(DataNode(Encode(value)), NewReferences(db, data_node_location))
        leaf_node == Node(LeafNode(key, data_node_location),
                          NewReferences(db, leaf_node_location))
    IN [db |-> db_insert(db_insert(db, data_node_location, data_node),
                         leaf_node_location, leaf_node),
        location |-> leaf_node_location]

RECURSIVE insert_leaves(_, _, _, _)
insert_leaves(db, keys, values, nodes) ==
    IF Len(keys) = 0 THEN [db |-> db, nodes |-> nodes]
    ELSE LET r == InsertLeaf(db, Head(keys), values[Head(keys)])
         IN insert_leaves(r.db, Tail(keys), values, Append(nodes, r.location))

-----------------------------------------------------------------------------
(* MerkleBIT::generate_treerefs                                            *)

\* The state of the traversal: the database, the cell queue, the proof nodes
\* collected so far and the error raised, if any.
Walk(db, cell_queue, proof_nodes, err) ==
    [db |-> db, cell_queue |-> cell_queue, proof_nodes |-> proof_nodes, err |-> err]

\* A leaf walk that keeps every leaf, replaced or not, as a proof node.
WalkLeafKeepAll(w, tree_cell, key_map) ==
    LET l == get_node(w.db, tree_cell.location)
    IN [w EXCEPT !.db = db_insert(w.db, tree_cell.location, Node(l.node, l.references + 1)),
                 !.proof_nodes = Append(@, TreeRef(tree_cell.node.node.key,
                                                   tree_cell.location, 1, 1))]

\* A leaf walk that deletes the leaf of a replaced key at once.
WalkLeafDropOld(w, tree_cell, key_map) ==
    LET key == tree_cell.node.node.key
        inBatch == key \in DOMAIN key_map
        update == inBatch /\ key_map[key] = tree_cell.location
    IN IF inBatch /\ ~update THEN [w EXCEPT !.db = db_remove(w.db, tree_cell.location)]
       ELSE LET l == get_node(w.db, tree_cell.location)
                db2 == db_insert(w.db, tree_cell.location, Node(l.node, l.references + 1))
            IN IF update THEN [w EXCEPT !.db = db2]
               ELSE [w EXCEPT !.db = db2,
                              !.proof_nodes =
                                  Append(@, TreeRef(key, tree_cell.location, 1, 1))]

\* A leaf of the previous tree is reached.
WalkLeaf(w, tree_cell, key_map) ==
    LET key == tree_cell.node.node.key
        inBatch == key \in DOMAIN key_map
        update == inBatch /\ key_map[key] = tree_cell.location
    IN IF inBatch /\ ~update THEN w
       ELSE IF ~has_node(w.db, tree_cell.location)
         THEN [w EXCEPT !.err = "Corrupt merkle tree"]
       ELSE LET l == get_node(w.db, tree_cell.location)
                db2 == db_insert(w.db, tree_cell.location,
                                 Node(l.node, l.references + 1))
            IN IF update THEN [w EXCEPT !.db = db2]
               ELSE [w EXCEPT !.db = db2,
                              !.proof_nodes =
                                  Append(@, TreeRef(key, tree_cell.location, 1, 1))]

\* No key of the batch goes below this branch: it is kept whole.
WalkKeepBranch(w, tree_cell) ==
    LET b == tree_cell.node.node
        new_branch == BranchNode(b.count, b.zero, b.one, b.split_index, b.key)
        tree_ref == TreeRef(b.key, tree_cell.location, b.count, 1)
        refs == tree_cell.node.references + 1
    IN [w EXCEPT !.db = db_insert(w.db, tree_ref.location, Node(new_branch, refs)),
                 !.proof_nodes = Append(@, tree_ref)]

\* A child kept as it is, counted as one leaf whatever it is.
WalkChildCountOne(w, child, child_keys, d) ==
    IF w.err # "" \/ ~has_node(w.db, child) THEN w
    ELSE LET child_node == get_node(w.db, child)
         IN IF Len(child_keys) > 0
            THEN [w EXCEPT !.cell_queue =
                               << TreeCell(child, child_keys, child_node, d + 1) >> \o @]
            ELSE [w EXCEPT !.db = db_insert(w.db, child,
                                            Node(child_node.node, child_node.references + 1)),
                           !.proof_nodes = Append(@, TreeRef(child_node.node.key, child, 1, 1))]

\* One child of a branch: descend with its keys, or keep it as it is.
WalkChild(w, child, child_keys, d) ==
    IF w.err # "" \/ ~has_node(w.db, child) THEN w
    ELSE LET child_node == get_node(w.db, child)
         IN IF Len(child_keys) > 0
            THEN [w EXCEPT !.cell_queue =
                               << TreeCell(child, child_keys, child_node, d + 1) >> \o @]
            ELSE IF child_node.node.tag = "d"
              THEN [w EXCEPT !.err = "Corrupt merkle tree"]
            ELSE LET refs == child_node.references + 1
                     count == IF child_node.node.tag = "b" THEN child_node.node.count ELSE 1
                     other_key == child_node.node.key
                 IN [w EXCEPT !.db = db_insert(w.db, child, Node(child_node.node, refs)),
                              !.proof_nodes = Append(@, TreeRef(other_key, child, count, 1))]

\* The keys of a cell that the traversal passes on at a branch.
WalkDescendants(tree_cell) ==
    LET b == tree_cell.node.node
        min_split_index == calc_min_split_index(tree_cell.keys, b.key)
    IN IF min_split_index < b.split_index
       THEN check_descendants(tree_cell.keys, b.split_index, b.key, min_split_index)
       ELSE tree_cell.keys

\* No key of the cell goes below the branch.
WalkKeeps(tree_cell) ==
    LET b == tree_cell.node.node
    IN /\ calc_min_split_index(tree_cell.keys, b.key) < b.split_index
       /\ Len(WalkDescendants(tree_cell)) = 0

WalkBranch(w, tree_cell) ==
    LET b == tree_cell.node.node
        sp == split_pairs(WalkDescendants(tree_cell), b.split_index)
    IN IF WalkKeeps(tree_cell)
       THEN WalkKeepBranch(w, tree_cell)
       ELSE WalkChild(WalkChild(w, b.one, sp.ones, tree_cell.depth),
                      b.zero, sp.zeros, tree_cell.depth)

\* The while loop of generate_treerefs.
RECURSIVE WalkLoop(_, _)
WalkLoop(w, key_map) ==
    IF w.err # "" \/ Len(w.cell_queue) = 0 THEN w
    ELSE LET tree_cell == Head(w.cell_queue)
             w1 == [w EXCEPT !.cell_queue = Tail(@)]
         IN IF tree_cell.depth > depth
            THEN [w1 EXCEPT !.err = "Depth of merkle tree exceeded"]
            ELSE IF tree_cell.node.node.tag = "b"
              THEN WalkLoop(WalkBranch(w1, tree_cell), key_map)
            ELSE IF tree_cell.node.node.tag = "l"
              THEN WalkLoop(WalkLeaf(w1, tree_cell, key_map), key_map)
            ELSE [w1 EXCEPT !.err = "Corrupt merkle tree"]

generate_treerefs(db, root, keys, key_map) ==
    IF ~has_node(db, root) THEN Walk(db, << >>, << >>, "Could not find root")
    ELSE WalkLoop(Walk(db, << TreeCell(root, keys, get_node(db, root), 0) >>, << >>, ""),
                  key_map)

-----------------------------------------------------------------------------
(* MerkleBIT::generate_tree_ref_queue and MerkleBIT::create_tree           *)

\* No sort of the tree references.
SortRefsNot(s) == s

\* tree_refs.sort(): TreeRefs are ordered by their key; the sort is stable.
RECURSIVE SortRefs(_)
SortRefs(s) ==
    IF Len(s) = 0 THEN << >>
    ELSE LET i == CHOOSE i \in DOMAIN s :
                      /\ \A j \in DOMAIN s : ~KeyLess(s[j].key, s[i].key)
                      /\ \A j \in 1..(i - 1) : s[j].key # s[i].key
         IN << s[i] >> \o SortRefs(SubSeq(s, 1, i - 1) \o SubSeq(s, i + 1, Len(s)))

\* The scan over the bytes of two neighbouring keys: the split bit, or -1
\* when the keys are the same.  j counts the bytes from 0.
RECURSIVE SplitBit(_, _, _)
SplitBit(left_key, right_key, j) ==
    IF j = KEY_LEN - 1 /\ left_key[j + 1] = right_key[j + 1] THEN -1
    ELSE IF left_key[j + 1] = right_key[j + 1] THEN SplitBit(left_key, right_key, j + 1)
    ELSE LET xor_key == Xor(left_key[j + 1], right_key[j + 1])
         IN U8(U8(j * 8) + U8(7 - fast_log_2(xor_key)))

\* Pops in increasing order of the split bit.
RECURSIVE PopOrderMin(_)
PopOrderMin(entries) ==
    IF entries = {} THEN << >>
    ELSE LET top == CHOOSE e \in entries : \A f \in entries \ {e} :
                        \/ f.split_index > e.split_index
                        \/ f.split_index = e.split_index /\ f.index < e.index
         IN << top >> \o PopOrderMin(entries \ {top})

\* BinaryHeap::pop takes the greatest (split bit, pointer, pointer, index).
RECURSIVE PopOrder(_)
PopOrder(entries) ==
    IF entries = {} THEN << >>
    ELSE LET top == CHOOSE e \in entries : \A f \in entries \ {e} :
                        \/ f.split_index < e.split_index
                        \/ f.split_index = e.split_index /\ f.index < e.index
         IN << top >> \o PopOrder(entries \ {top})

\* A queue that passes over two neighbours with the same key instead of failing.
generate_tree_ref_queue_skip(tree_rcs) ==
    LET bits == [i \in 0..(Len(tree_rcs) - 2) |->
                    SplitBit(tree_rcs[i + 1].key, tree_rcs[i + 2].key, 0)]
    IN [err |-> "",
        queue |-> PopOrder({ [split_index |-> bits[i], index |-> i] :
                                i \in { j \in DOMAIN bits : bits[j] # -1 } })]

\* The queue in the order of its pops; err is set when two neighbours have the same key.
generate_tree_ref_queue(tree_rcs) ==
    LET bits == [i \in 0..(Len(tree_rcs) - 2) |->
                    SplitBit(tree_rcs[i + 1].key, tree_rcs[i + 2].key, 0)]
    IN IF \E i \in DOMAIN bits : bits[i] = -1
       THEN [err |-> "Attempted to insert item with duplicate keys", queue |-> << >>]
       ELSE [err |-> "",
             queue |-> PopOrder({ [split_index |-> bits[i], index |-> i] : i \in DOMAIN bits })]

\* "Find the rightmost edge of the adjacent subtree": the slot (counted from 0) the
\* lookahead ends on, or -1 when a read falls outside the vector.
RECURSIVE LookaheadFrom(_, _, _)
LookaheadFrom(tree_refs, index, count) ==
    LET at == index + count
    IN IF at >= Len(tree_refs) THEN -1
       ELSE IF tree_refs[at + 1].count > count
         THEN LookaheadFrom(tree_refs, index, tree_refs[at + 1].count)
       ELSE at

\* A lookahead that always takes the next slot.
LookaheadNextSlot(tree_refs, index) == index + 1

Lookahead(tree_refs, index) ==
    IF tree_refs[index + 2].count > 1
    THEN LookaheadFrom(tree_refs, index, tree_refs[index + 2].count)
    ELSE index + 1

\* The tree reference of the branch that joins tree_ref and lookahead.
MergedRef(tree_ref, lookahead) ==
    TreeRef(tree_ref.key, BranchLocation(tree_ref.location, lookahead.location),
            tree_ref.node_count + lookahead.node_count,
            lookahead.count + tree_ref.count)

\* An overwrite of the right slot only.
OverwriteRightOnly(tree_refs, index, at) ==
    [tree_refs EXCEPT ![at + 1] = MergedRef(tree_refs[index + 1], tree_refs[at + 1])]

\* The end of a turn of the loop: the slot the lookahead ended on takes the
\* merged reference, and slot index takes a copy of it.
Overwrite(tree_refs, index, at) ==
    LET merged == MergedRef(tree_refs[index + 1], tree_refs[at + 1])
    IN [tree_refs EXCEPT ![at + 1] = merged, ![index + 1] = merged]

\* The references a new branch node is written with.
BranchReferences(db, location) == 1

\* The result of create_tree: the database, the root or the error, the branches
\* written, and whether a read fell outside the vector.
Built(db, res, branches, ub) == [db |-> db, res |-> res, branches |-> branches, ub |-> ub]

\* The for loop of create_tree, one pop per turn.
RECURSIVE CreateLoop(_, _, _, _)
CreateLoop(db, tree_refs, queue, branches) ==
    IF Len(queue) = 0 THEN Built(db, Err("Failed to build tree"), branches, FALSE)
    ELSE
      LET split_index == Head(queue).split_index
          index == Head(queue).index
          tree_ref == tree_refs[index + 1]
          at == Lookahead(tree_refs, index)
      IN IF at = -1 THEN Built(db, Err("read outside tree_refs"), branches, TRUE)
         ELSE
           LET lookahead == tree_refs[at + 1]
               count == tree_ref.node_count + lookahead.node_count
               branch_node_location == BranchLocation(tree_ref.location, lookahead.location)
               branch == BranchNode(count, tree_ref.location, lookahead.location,
                                    split_index, tree_ref.key)
               db2 == db_insert(db, branch_node_location,
                                Node(branch, BranchReferences(db, branch_node_location)))
               tree_refs2 == Overwrite(tree_refs, index, at)
           IN IF Len(queue) = 1
              THEN Built(batch_write(db2), Ok(branch_node_location),
                         Append(branches, branch_node_location), FALSE)
              ELSE CreateLoop(db2, tree_refs2, Tail(queue),
                              Append(branches, branch_node_location))

create_tree(db, tree_refs) ==
    IF Len(tree_refs) = 1
    THEN Built(batch_write(db), Ok(tree_refs[1].location), << >>, FALSE)
    ELSE LET sorted == SortRefs(tree_refs)
             q == generate_tree_ref_queue(sorted)
         IN IF q.err # "" THEN Built(db, Err(q.err), << >>, FALSE)
            ELSE CreateLoop(db, sorted, q.queue, << >>)

-----------------------------------------------------------------------------
(* MerkleBIT::insert                                                       *)

\* value_map: a later pair of the batch replaces an earlier one with the same key.
ValueMap(keys, values) ==
    [k \in Range(keys) |->
        LET last == CHOOSE i \in DOMAIN keys :
                        keys[i] = k /\ \A j \in DOMAIN keys : keys[j] = k => j <= i
        IN values[last]]

\* key_map: the leaf location of each key, in the order of the sorted keys.
KeyMap(keys, nodes) ==
    [k \in Range(keys) |->
        LET last == CHOOSE i \in DOMAIN keys :
                        keys[i] = k /\ \A j \in DOMAIN keys : keys[j] = k => j <= i
        IN nodes[last]]

\* An insert that pairs keys and values as far as both go and only refuses
\* when that leaves nothing.
insert_zip(db, previous_root, keys, values) ==
    LET n == IF Len(keys) < Len(values) THEN Len(keys) ELSE Len(values)
        ks == SubSeq(keys, 1, n)
        value_map == ValueMap(ks, SubSeq(values, 1, n))
        sorted == SortKeys(ks)
        leaves == insert_leaves(db, sorted, value_map, << >>)
        new_refs == [i \in DOMAIN sorted |-> TreeRef(sorted[i], leaves.nodes[i], 1, 1)]
        key_map == KeyMap(sorted, leaves.nodes)
        walk == IF previous_root = None THEN Walk(leaves.db, << >>, << >>, "")
                ELSE generate_treerefs(leaves.db, previous_root[1], sorted, key_map)
    IN IF n = 0 THEN Built(db, Err("Keys or values are empty"), << >>, FALSE)
       ELSE IF walk.err # "" THEN Built(walk.db, Err(walk.err), << >>, FALSE)
       ELSE create_tree(walk.db, new_refs \o walk.proof_nodes)

\* previous_root is None or Some(root).
insert(db, previous_root, keys, values) ==
    IF Len(keys) # Len(values)
    THEN Built(db, Err("Keys and values have different lengths"), << >>, FALSE)
    ELSE IF Len(keys) = 0
    THEN Built(db, Err("Keys or values are empty"), << >>, FALSE)
    ELSE
      LET value_map == ValueMap(keys, values)
          sorted == SortKeys(keys)
          leaves == insert_leaves(db, sorted, value_map, << >>)
          new_refs == [i \in DOMAIN sorted |-> TreeRef(sorted[i], leaves.nodes[i], 1, 1)]
          key_map == KeyMap(sorted, leaves.nodes)
          walk == IF previous_root = None THEN Walk(leaves.db, << >>, << >>, "")
                  ELSE generate_treerefs(leaves.db, previous_root[1], sorted, key_map)
      IN IF walk.err # "" THEN Built(walk.db, Err(walk.err), << >>, FALSE)
         ELSE create_tree(walk.db, new_refs \o walk.proof_nodes)

-----------------------------------------------------------------------------
(* MerkleBIT::remove                                                       *)

\* Children that forget the data node of a leaf.
ChildrenOfBranchOnly(variant) ==
    IF variant.tag = "b" THEN << variant.zero, variant.one >> ELSE << >>

\* The hashes pushed to the back of the queue when a node is deleted.
Children(variant) ==
    IF variant.tag = "b" THEN << variant.zero, variant.one >>
    ELSE IF variant.tag = "l" THEN << variant.data >>
    ELSE << >>

\* refs -= 1 unless it is 0 already
Decremented(refs) == IF refs > 0 THEN refs - 1 ELSE refs

\* The while loop of remove.
RECURSIVE RemoveLoop(_, _)
RemoveLoop(db, nodes) ==
    IF Len(nodes) = 0 THEN db
    ELSE LET node_location == Head(nodes)
             rest == Tail(nodes)
         IN IF ~has_node(db, node_location) THEN RemoveLoop(db, rest)
            ELSE LET node == get_node(db, node_location)
                     refs == Decremented(node.references)
                 IN IF refs = 0
                    THEN RemoveLoop(db_remove(db, node_location),
                                    rest \o Children(node.node))
                    ELSE RemoveLoop(db_insert(db, node_location, Node(node.node, refs)),
                                    rest)

remove(db, root_hash) == RemoveLoop(db, << root_hash >>)

-----------------------------------------------------------------------------
(* The state machine: one tree handle, called by one writer.               *)

VARIABLES
    map,              \* HashDB.map: the committed nodes
    pending_inserts,  \* HashDB.pending_inserts: the buffered writes
    calls,            \* the insert and remove calls made so far, with their results
    before,           \* the database as it was before the last call
    got,              \* the last get call and its result, None when there is none
    tasks             \* the worker tasks of a parallel insert_leaves, one for each key

vars == << map, pending_inserts, calls, before, got, tasks >>

Db == [map |-> map, pending_inserts |-> pending_inserts]

\* A batch: a non-empty set of pairs with pairwise distinct keys.
BatchesOver(K) == UNION { [ks -> Values] : ks \in (SUBSET K) \ {{}} }
Batches == BatchesOver(FewKeys)
BuildBatches == BatchesOver(Keys)

\* The keys of a batch as the caller passes them: in decreasing order.
RECURSIVE Reverse(_)
Reverse(s) == IF Len(s) = 0 THEN << >> ELSE Reverse(Tail(s)) \o << Head(s) >>

BatchKeys(b) == Reverse(SortedSeq(DOMAIN b))
BatchValues(b) == [i \in 1..Cardinality(DOMAIN b) |-> b[BatchKeys(b)[i]]]

InsertCalls == { i \in DOMAIN calls : calls[i].op = "insert" }
RemoveCalls == { i \in DOMAIN calls : calls[i].op = "remove" }
\* The insert calls that returned a root.
Returned == { i \in InsertCalls : calls[i].res.ok }

Init ==
    /\ map = EmptyMap
    /\ pending_inserts = << >>
    /\ calls = << >>
    /\ before = NewDb
    /\ got = None
    /\ tasks = << >>

\* insert(previous_root, keys, values); from = 0 stands for no previous root,
\* from = i for the root the i-th call returned.
Insert(from, b) ==
    /\ Cardinality(InsertCalls) < MaxInserts
    /\ LET previous_root == IF from = 0 THEN None ELSE Some(calls[from].res.val)
       IN \E r \in { insert(Db, previous_root, BatchKeys(b), BatchValues(b)) } :
          /\ map' = r.db.map
          /\ pending_inserts' = r.db.pending_inserts
          \* a read outside the vector is undefined: any outcome
          /\ \E res \in (IF r.ub THEN {r.res} \cup { Ok(l) : l \in DOMAIN r.db.map }
                         ELSE {r.res}) :
                calls' = Append(calls, [op |-> "insert", from |-> from, root |-> previous_root,
                                        batch |-> b, res |-> res, branches |-> r.branches])
    /\ before' = Db
    /\ got' = None
    /\ UNCHANGED tasks

\* remove(root_hash) of the root the i-th call returned
Remove(i) ==
    /\ Cardinality(RemoveCalls) < MaxRemoves
    /\ LET root_hash == calls[i].res.val
       IN \E db2 \in { remove(Db, root_hash) } :
          /\ map' = db2.map
          /\ pending_inserts' = db2.pending_inserts
          /\ calls' = Append(calls, [op |-> "remove", from |-> i, root |-> Some(root_hash),
                                     batch |-> EmptyMap, res |-> Ok(None),
                                     branches |-> << >>])
    /\ before' = Db
    /\ got' = None
    /\ UNCHANGED tasks

\* get(root_hash, keys) of the root the i-th call returned, for every key
Get(i) ==
    /\ got = None
    /\ LET root_hash == calls[i].res.val
           keys == Reverse(SortedSeq(Keys))
       IN got' = Some([root |-> root_hash, keys |-> keys, res |-> get(Db, root_hash, keys)])
    /\ UNCHANGED << map, pending_inserts, calls, before, tasks >>

\* Any run of inserts, removes and gets.
Next ==
    \/ \E from \in {0} \cup Returned : \E b \in Batches : Insert(from, b)
    \/ \E i \in Returned : Remove(i)
    \/ \E i \in Returned : Get(i)

Spec == Init /\ [][Next]_vars

\* Runs of inserts only, each into the empty tree or onto a root returned before.
NextInsert == \E from \in {0} \cup Returned : \E b \in Batches : Insert(from, b)

SpecInsert == Init /\ [][NextInsert]_vars

\* Runs of inserts only, each into the empty tree or onto the newest root.
NextLatest ==
    \E from \in {0} \cup (Returned \cap {Len(calls)}) : \E b \in Batches : Insert(from, b)

SpecLatest == Init /\ [][NextLatest]_vars

\* One tree built in the empty store, then read and removed.
NextBuild ==
    \/ calls = << >> /\ \E b \in BuildBatches : Insert(0, b)
    \/ \E i \in Returned : Remove(i)
    \/ \E i \in Returned : Get(i)

SpecBuild == Init /\ [][NextBuild]_vars

-----------------------------------------------------------------------------
(* Insert calls with arguments a careful caller would not pass.            *)

TwoKeys == { <<128, 0>>, <<128, 1>> }

\* The batches of the successful calls of these runs.
FailBatches == { b \in BatchesOver(TwoKeys) : <<128, 1>> \in DOMAIN b => b[<<128, 1>>] = 1 }

\* A root hash that no node is stored at.
UnknownRoot == BranchLocation(None, None)

\* Key sequences in which a key is repeated: next to each other, apart, first or last.
DupKeySeqs ==
    { << <<128, 0>>, <<128, 0>> >>,
      << <<128, 0>>, <<128, 0>>, <<128, 1>> >>,
      << <<128, 0>>, <<128, 1>>, <<128, 0>> >>,
      << <<128, 1>>, <<128, 0>>, <<128, 0>> >> }

\* Values for n keys: all the same, alternating, or the first one different.
ValueSeqs(n) ==
    { [i \in 1..n |-> 1],
      [i \in 1..n |-> IF i % 2 = 1 THEN 1 ELSE 2],
      [i \in 1..n |-> IF i = 1 THEN 2 ELSE 1] }

Args(keys, values) == [keys |-> keys, values |-> values]

\* Batches with a repeated key.
DupArgs == UNION { { Args(ks, vs) : vs \in ValueSeqs(Len(ks)) } : ks \in DupKeySeqs }

\* Batches with no keys, no values, or not as many keys as values.
RejectedArgs ==
    { Args(<< >>, << >>), Args(<< >>, << 1 >>), Args(<< <<128, 0>> >>, << >>),
      Args(<< <<128, 0>>, <<128, 1>> >>, << 1 >>), Args(<< <<128, 0>> >>, << 1, 2 >>) }

\* Well-formed batches, passed with a root that is not in the store.
PlainArgs ==
    { Args(<< <<128, 0>> >>, << 1 >>), Args(<< <<128, 1>>, <<128, 0>> >>, << 1, 2 >>) }

\* The newest of the calls that returned a root.
Newest == { i \in Returned : \A j \in Returned : j <= i }

\* insert(previous_root, keys, values) with such arguments; once in a run.
InsertArgs(previous_root, a) ==
    /\ \A i \in DOMAIN calls : calls[i].op # "insert_args"
    /\ \E r \in { insert(Db, previous_root, a.keys, a.values) } :
          /\ map' = r.db.map
          /\ pending_inserts' = r.db.pending_inserts
          /\ calls' = Append(calls, [op |-> "insert_args", from |-> 0, root |-> previous_root,
                                     batch |-> a, res |-> r.res, branches |-> r.branches,
                                     pre |-> Db, buffered |-> Len(r.db.pending_inserts)])
    /\ before' = Db
    /\ got' = None
    /\ UNCHANGED tasks

\* Runs of inserts into the empty tree or onto the newest root, with one call
\* that passes a repeated key, a rejected batch or an unknown root.
NextFail ==
    \/ \E from \in {0} \cup Newest : \E b \in FailBatches : Insert(from, b)
    \/ \E root \in {None} \cup { Some(calls[i].res.val) : i \in Newest } :
          \E a \in DupArgs \cup RejectedArgs : InsertArgs(root, a)
    \/ \E a \in PlainArgs \cup DupArgs : InsertArgs(Some(UnknownRoot), a)

SpecFail == Init /\ [][NextFail]_vars

-----------------------------------------------------------------------------
(* Inserts that go on after a root has been removed.                       *)

ReuseKeys == { <<0, 0>>, <<128, 0>>, <<128, 1>>, <<129, 0>> }

\* Batches of one or two pairs, every value 1.
ReuseBatches ==
    { b \in BatchesOver(ReuseKeys) :
        Cardinality(DOMAIN b) <= 2 /\ \A k \in DOMAIN b : b[k] = 1 }

\* insert(previous_root, keys, values) as the call that follows a remove.
InsertAfterRemove(from, b) ==
    /\ Len(calls) > 0
    /\ calls[Len(calls)].op = "remove"
    /\ \E r \in { insert(Db, Some(calls[from].res.val), BatchKeys(b), BatchValues(b)) } :
          /\ map' = r.db.map
          /\ pending_inserts' = r.db.pending_inserts
          /\ \E res \in (IF r.ub THEN {r.res} \cup { Ok(l) : l \in DOMAIN r.db.map }
                         ELSE {r.res}) :
                calls' = Append(calls, [op |-> "insert", from |-> from,
                                        root |-> Some(calls[from].res.val),
                                        batch |-> b, res |-> res, branches |-> r.branches])
    /\ before' = Db
    /\ got' = None
    /\ UNCHANGED tasks

\* Inserts and removes, and an insert onto a returned root after each remove.
NextReuse ==
    \/ \E from \in {0} \cup Returned : \E b \in ReuseBatches : Insert(from, b)
    \/ \E i \in Returned : Remove(i)
    \/ \E from \in Returned : \E b \in ReuseBatches : InsertAfterRemove(from, b)

SpecReuse == Init /\ [][NextReuse]_vars

-----------------------------------------------------------------------------
(* Gets with a root hash that is not in the store.                         *)

\* Key batches of one or two keys, in any order, a key possibly twice.
GetKeySeqs == UNION { [1..n -> FewKeys] : n \in 1..2 }

\* Root hashes to ask for: one that is never stored, the roots the calls
\* returned, and the locations of two leaves.
RootHashes ==
    {UnknownRoot}
      \cup { calls[i].res.val : i \in Returned }
      \cup { LeafLocation(k, DataLocation(k, Encode(1))) : k \in TwoKeys }

\* get(root_hash, keys) with a root hash that is not in the store
GetAbsent(root_hash, keys) ==
    /\ got = None
    /\ ~has_node(Db, root_hash)
    /\ got' = Some([root |-> root_hash, keys |-> keys, res |-> get(Db, root_hash, keys)])
    /\ UNCHANGED << map, pending_inserts, calls, before, tasks >>

\* One tree built, read and removed, and gets with root hashes not in the store.
NextGet ==
    \/ calls = << >> /\ \E b \in BuildBatches : Insert(0, b)
    \/ \E i \in Returned : Remove(i)
    \/ \E i \in Returned : Get(i)
    \/ \E root_hash \in RootHashes : \E keys \in GetKeySeqs : GetAbsent(root_hash, keys)

SpecGet == Init /\ [][NextGet]_vars

-----------------------------------------------------------------------------
(* Traversals: a tree over the five keys, inserts onto it, and gets.       *)

\* The batches of the first tree: any of the five keys, every value 1.
FirstBatches == { b \in BuildBatches : \A k \in DOMAIN b : b[k] = 1 }

\* The key batches of the gets: all keys, or two of them in any order.
WalkKeySeqs == { Reverse(SortedSeq(Keys)) } \cup [1..2 -> { <<0, 1>>, <<128, 0>> }]

\* get(root_hash, keys) of the root the i-th call returned, for some of the keys
GetSome(i, keys) ==
    /\ got = None
    /\ got' = Some([root |-> calls[i].res.val, keys |-> keys,
                    res |-> get(Db, calls[i].res.val, keys)])
    /\ UNCHANGED << map, pending_inserts, calls, before, tasks >>

\* A get ends the run: it leaves the store as it is.
NextWalk ==
    \/ calls = << >> /\ \E b \in FirstBatches : Insert(0, b)
    \/ got = None /\ \E from \in Newest : \E b \in Batches : Insert(from, b)
    \/ \E i \in Newest : \E keys \in WalkKeySeqs : GetSome(i, keys)

SpecWalk == Init /\ [][NextWalk]_vars

-----------------------------------------------------------------------------
(* insert_leaves with use_rayon: one task for each key of the batch, the   *)
(* reads and writes of the tasks in any order.                             *)

\* The trees the store may hold before: over any of the three keys, every value 1.
PriorBatches == { b \in Batches : \A k \in DOMAIN b : b[k] = 1 }

\* The closure of one key: where it stands and its local variables.
Task(pc, data_node_location, data_node, leaf_node_location, leaf_node) ==
    [pc |-> pc, data_node_location |-> data_node_location, data_node |-> data_node,
     leaf_node_location |-> leaf_node_location, leaf_node |-> leaf_node]

\* The closure up to its first read of the database: both nodes with references 1.
NewTask(key, value) ==
    LET data_node_location == DataLocation(key, Encode(value))
    IN Task("get_data",
            data_node_location, Node(DataNode(Encode(value)), 1),
            LeafLocation(key, data_node_location),
            Node(LeafNode(key, data_node_location), 1))

Running == DOMAIN tasks # {}

\* keys.par_iter().map(..): insert_leaves is entered with the sorted keys of a batch.
MaterializeLeaves(b) ==
    /\ got = None /\ ~Running
    /\ \A i \in DOMAIN calls : calls[i].op # "insert_leaves"
    /\ tasks' = [k \in DOMAIN b |-> NewTask(k, b[k])]
    /\ calls' = Append(calls, [op |-> "insert_leaves", from |-> 0, root |-> None,
                               batch |-> b, res |-> Ok(None), branches |-> << >>])
    /\ before' = Db
    /\ UNCHANGED << map, pending_inserts, got >>

\* db.get_node(&data_node_location) and the references of the data node
LoadData(k) ==
    /\ tasks[k].pc = "get_data"
    /\ tasks' = [tasks EXCEPT
                    ![k].data_node = Node(@.node, NewReferences(Db, tasks[k].data_node_location)),
                    ![k].pc = "get_leaf"]
    /\ UNCHANGED << map, pending_inserts, calls, before, got >>

\* db.get_node(&leaf_node_location) and the references of the leaf node
LoadLeaf(k) ==
    /\ tasks[k].pc = "get_leaf"
    /\ tasks' = [tasks EXCEPT
                    ![k].leaf_node = Node(@.node, NewReferences(Db, tasks[k].leaf_node_location)),
                    ![k].pc = "insert_data"]
    /\ UNCHANGED << map, pending_inserts, calls, before, got >>

\* db.insert(data_node_location, data_node)
StoreData(k) ==
    /\ tasks[k].pc = "insert_data"
    /\ pending_inserts' =
          db_insert(Db, tasks[k].data_node_location, tasks[k].data_node).pending_inserts
    /\ tasks' = [tasks EXCEPT ![k].pc = "insert_leaf"]
    /\ UNCHANGED << map, calls, before, got >>

\* db.insert(leaf_node_location, leaf_node); the closure returns leaf_node_location
StoreLeaf(k) ==
    /\ tasks[k].pc = "insert_leaf"
    /\ pending_inserts' =
          db_insert(Db, tasks[k].leaf_node_location, tasks[k].leaf_node).pending_inserts
    /\ tasks' = [tasks EXCEPT ![k].pc = "done"]
    /\ UNCHANGED << map, calls, before, got >>

\* .collect(): the leaf locations in the order of the keys; insert_leaves returns.
Collect ==
    /\ Running
    /\ \A k \in DOMAIN tasks : tasks[k].pc = "done"
    /\ LET keys == SortKeys(BatchKeys(calls[Len(calls)].batch))
           nodes == [i \in DOMAIN keys |-> tasks[keys[i]].leaf_node_location]
       IN calls' = [calls EXCEPT ![Len(calls)].res = Ok(Some(nodes))]
    /\ tasks' = << >>
    /\ UNCHANGED << map, pending_inserts, before, got >>

\* A tree or none in the store, then one parallel insert_leaves.
NextLeaves ==
    \/ calls = << >> /\ \E b \in PriorBatches : Insert(0, b)
    \/ \E b \in Batches : MaterializeLeaves(b)
    \/ \E k \in DOMAIN tasks : LoadData(k)
    \/ \E k \in DOMAIN tasks : LoadLeaf(k)
    \/ \E k \in DOMAIN tasks : StoreData(k)
    \/ \E k \in DOMAIN tasks : StoreLeaf(k)
    \/ Collect

SpecLeaves == Init /\ [][NextLeaves]_vars

-----------------------------------------------------------------------------
(* What the calls made so far should have bound.                           *)

Last == calls[Len(calls)]

Override(f, g) ==
    [k \in (DOMAIN f) \cup (DOMAIN g) |-> IF k \in DOMAIN g THEN g[k] ELSE f[k]]

\* The bindings under the root the i-th call returned.
RECURSIVE Bind(_)
Bind(i) ==
    IF calls[i].from = 0 THEN calls[i].batch
    ELSE Override(Bind(calls[i].from), calls[i].batch)

\* The map get should return for these keys under these bindings.
Expected(bind, keys) ==
    [k \in Range(keys) |-> IF k \in DOMAIN bind THEN Some(bind[k]) ELSE None]

AllKeys == SortedSeq(Keys)

\* The locations of the branch nodes of a map.
BranchesOf(m) == { l \in DOMAIN m : m[l].node.tag = "b" }

\* The locations a node of map m points to.
ChildSet(m, l) == IF l \in DOMAIN m THEN Range(Children(m[l].node)) ELSE {}

\* The locations reachable from the locations of `from` through the nodes of m.
RECURSIVE Reach(_, _)
Reach(m, from) ==
    LET more == from \cup UNION { ChildSet(m, l) : l \in from }
    IN IF more = from THEN from ELSE Reach(m, more)

\* The keys of the leaves below a location.
LeafKeys(m, l) ==
    { m[x].node.key : x \in { y \in Reach(m, {l}) \cap DOMAIN m : m[y].node.tag = "l" } }

\* The insert calls among the first n whose root was returned and not removed since.
LiveCalls(n) ==
    { i \in 1..n : /\ calls[i].op = "insert"
                   /\ calls[i].res.ok
                   /\ ~\E j \in 1..n : calls[j].op = "remove" /\ calls[j].from = i }

LiveRoots(n) == { calls[i].res.val : i \in LiveCalls(n) }

AllOk == \A i \in DOMAIN calls : calls[i].res.ok

\* The parent edges into l: one for each node under a live root that points to
\* it and one for each live root that it is.
InEdges(m, n, l) ==
    Cardinality({ p \in Reach(m, LiveRoots(n)) : l \in ChildSet(m, p) })
    + Cardinality({ i \in LiveCalls(n) : calls[i].res.val = l })

-----------------------------------------------------------------------------
(* The claims.                                                             *)

\* C1 (round trip): right after insert(None, B) into the empty store, the call
\* has returned a root, get of the keys of B under that root returns exactly
\* the pairs of B, get of every key returns None for the keys not in B, and when
\* B has one pair the root is the location of its leaf and the store holds no branch.
C1_RoundTrip ==
    Len(calls) = 1 =>
        LET c == calls[1]
            root == c.res.val
            k1 == CHOOSE k \in DOMAIN c.batch : TRUE
        IN /\ c.res.ok
           /\ get(Db, root, BatchKeys(c.batch)) = Ok([k \in DOMAIN c.batch |-> Some(c.batch[k])])
           /\ get(Db, root, AllKeys) = Ok(Expected(c.batch, AllKeys))
           /\ got # None => got[1].res = Ok(Expected(c.batch, AllKeys))
           /\ Cardinality(DOMAIN c.batch) = 1 =>
                 /\ root = LeafLocation(k1, DataLocation(k1, Encode(c.batch[k1])))
                 /\ BranchesOf(map) = {}

\* C1 witness: a batch of four pairs was inserted and read back in full.
C1_Witness ==
    /\ Len(calls) = 1
    /\ Cardinality(DOMAIN calls[1].batch) = 4
    /\ got # None
    /\ got[1].res.ok
    /\ \A k \in DOMAIN calls[1].batch : got[1].res.val[k] = Some(calls[1].batch[k])

\* C2 (update semantics): right after insert(r, B') on a root r returned by
\* earlier inserts over the bindings B, the call has returned a root r', get of
\* each single key under r' returns B'[k], else B[k], else None, and get under r
\* still returns the bindings of B.
C2_UpdateSemantics ==
    (Len(calls) > 0 /\ Last.from # 0) =>
        LET r == calls[Last.from].res.val
            r2 == Last.res.val
        IN /\ Last.res.ok
           /\ \A k \in Keys :
                 get(Db, r2, << k >>) = Ok(Expected(Bind(Len(calls)), << k >>))
           /\ get(Db, r, AllKeys) = Ok(Expected(Bind(Last.from), AllKeys))

\* C2 witness: the batch changed the value of one key of B, repeated another
\* binding of B unchanged and added a new key, and a root was returned.
C2_Witness ==
    /\ Len(calls) = 2
    /\ Last.from = 1
    /\ Last.res.ok
    /\ \E k \in DOMAIN calls[1].batch \cap DOMAIN Last.batch : calls[1].batch[k] # Last.batch[k]
    /\ \E k \in DOMAIN calls[1].batch \cap DOMAIN Last.batch : calls[1].batch[k] = Last.batch[k]
    /\ \E k \in DOMAIN Last.batch : k \notin DOMAIN calls[1].batch
    /\ get(Db, Last.res.val, AllKeys) = Ok(Expected(Bind(2), AllKeys))

\* C3 (multi-root retention): after insert(None, B) -> r, insert(r, B') -> r'
\* and remove(r'), get of the keys of B under r returns every binding of B.
C3_MultiRootRetention ==
    ( /\ Len(calls) = 3
      /\ calls[1].op = "insert" /\ calls[1].from = 0
      /\ calls[2].op = "insert" /\ calls[2].from = 1 /\ calls[2].res.ok
      /\ calls[3].op = "remove" /\ calls[3].from = 2 ) =>
        get(Db, calls[1].res.val, BatchKeys(calls[1].batch))
            = Ok([k \in DOMAIN calls[1].batch |-> Some(calls[1].batch[k])])

\* C4 (reference counts): after successful inserts and removes every node of the
\* store has as many references as parent edges from the live roots, and every
\* node reachable from a live root is in the store.
C4_ReferenceCounts ==
    AllOk =>
        /\ \A l \in DOMAIN map : map[l].references = InEdges(map, Len(calls), l)
        /\ Reach(map, LiveRoots(Len(calls))) \subseteq DOMAIN map

\* The parent edges into l that remove(r) takes away: from the nodes only r
\* reached, and from r being a root.
EdgesTaken(m, r, only, l) ==
    Cardinality({ p \in only : l \in ChildSet(m, p) }) + (IF l = r THEN 1 ELSE 0)

\* C5 (remove contract): after remove(r) of a live root, every node that only r
\* reached is gone from the store, and every node that r and another live root
\* reached is in the store with its references decreased by the edges from r;
\* these are the counts the store gives to the next call.
C5_RemoveContract ==
    ( /\ Len(calls) > 0
      /\ AllOk
      /\ Last.op = "remove"
      /\ Last.from \in LiveCalls(Len(calls) - 1) ) =>
        LET r == Last.root[1]
            fromR == Reach(before.map, {r}) \cap DOMAIN before.map
            fromOthers == Reach(before.map, LiveRoots(Len(calls)))
            only == fromR \ fromOthers
        IN \A l \in fromR :
              IF l \in only THEN l \notin DOMAIN map
              ELSE /\ l \in DOMAIN map
                   /\ map[l].references
                        = before.map[l].references - EdgesTaken(before.map, r, only, l)

\* C6 (reap precision): after insert(None, B) -> r into the empty store and
\* remove(r), the store holds no node, committed or buffered, and get of every
\* key under r returns None.
C6_ReapPrecision ==
    ( /\ Len(calls) = 2
      /\ calls[1].op = "insert" /\ calls[1].from = 0
      /\ calls[2].op = "remove" /\ calls[2].from = 1 ) =>
        /\ map = EmptyMap
        /\ pending_inserts = << >>
        /\ get(Db, calls[1].res.val, BatchKeys(calls[1].batch))
              = Ok([k \in DOMAIN calls[1].batch |-> None])
        /\ got # None => got[1].res = Ok([k \in Keys |-> None])

\* C6 witness: a tree of four bindings was removed and then read.
C6_Witness ==
    /\ Len(calls) = 2
    /\ Last.op = "remove"
    /\ Cardinality(DOMAIN calls[1].batch) = 4
    /\ map = EmptyMap
    /\ got # None
    /\ \A k \in Keys : got[1].res.val[k] = None

\* The nodes where the tree of r2 joins the tree of r: reached from both roots,
\* and either r itself or the child of a node that only r2 reaches.
Joins(m, r, r2) ==
    LET fromR == Reach(m, {r})
        fromR2 == Reach(m, {r2})
    IN { l \in fromR \cap fromR2 :
            \/ l = r /\ l # r2
            \/ \E p \in fromR2 \ fromR : l \in ChildSet(m, p) }

\* C7 (structural sharing): right after insert(r, B') -> r' every node reached
\* from both r and r' has at least two references.  It is stated here for the
\* nodes where the two trees join, the ones that have a parent edge from each
\* tree; the claim asks it of the nodes below them as well.
C7_StructuralSharing ==
    (Len(calls) > 0 /\ AllOk /\ RemoveCalls = {} /\ Last.from # 0) =>
        \A l \in Joins(map, calls[Last.from].res.val, Last.res.val) :
            l \in DOMAIN map /\ map[l].references >= 2

\* The orders in which the pairs of a batch can be passed.
Orders(b) ==
    { s \in [1..Cardinality(DOMAIN b) -> DOMAIN b] :
        \A i, j \in DOMAIN s : i # j => s[i] # s[j] }

\* C8 (determinism and order independence): the root an insert returns is the
\* same for every order of the pairs of its batch, and it is the root that
\* inserting all the resulting bindings in one batch into an empty store returns.
C8_Determinism ==
    Len(calls) > 0 =>
        LET all == Bind(Len(calls))
        IN /\ Last.res.ok
           /\ \A s \in Orders(Last.batch) :
                 insert(before, Last.root, s, [i \in DOMAIN s |-> Last.batch[s[i]]]).res
                     = Last.res
           /\ insert(NewDb, None, BatchKeys(all), BatchValues(all)).res = Last.res

\* C8 witness: a second insert of three pairs onto a root of two bindings, one of
\* them replaced.
C8_Witness ==
    /\ Len(calls) = 2
    /\ Last.from = 1
    /\ Last.res.ok
    /\ Cardinality(DOMAIN Last.batch) = 3
    /\ Cardinality(DOMAIN calls[1].batch) = 2
    /\ \E k \in DOMAIN calls[1].batch : calls[1].batch[k] # Last.batch[k]

\* Every branch at or below l has a split index greater than that of the branch
\* above it, zero-bit leaves below its zero child and one-bit leaves below its one.
RECURSIVE SplitOrdered(_, _, _)
SplitOrdered(m, l, above) ==
    /\ l \in DOMAIN m
    /\ m[l].node.tag = "b" =>
          LET b == m[l].node
          IN /\ b.split_index > above
             /\ \A k \in LeafKeys(m, b.zero) : choose_zero(k, b.split_index)
             /\ \A k \in LeafKeys(m, b.one) : ~choose_zero(k, b.split_index)
             /\ SplitOrdered(m, b.zero, b.split_index)
             /\ SplitOrdered(m, b.one, b.split_index)

\* C9 (split-bit ordering): in the tree of every root the inserts have returned,
\* the split index grows along every path and the leaves are on the side of
\* their bit.
C9_SplitBitOrdering ==
    \A i \in Returned : SplitOrdered(map, calls[i].res.val, -1)

\* C9 witness: a tree of two branch levels built onto a previous root.
C9_Witness ==
    /\ Len(calls) = 2
    /\ Last.from = 1
    /\ Last.res.ok
    /\ map[Last.res.val].node.tag = "b"
    /\ map[map[Last.res.val].node.one].node.tag = "b"
    /\ map[Last.res.val].node.split_index < map[map[Last.res.val].node.one].node.split_index

\* C10 (branch leaf count): every branch the inserts have written counts the
\* leaves below it; and two keys that differ in bit 0, inserted without a previous
\* root, give a branch of split index 0 and count 2 over the leaf of the smaller
\* key (zero) and the leaf of the larger key (one).
C10_BranchLeafCount ==
    /\ \A l \in BranchesOf(map) : map[l].node.count = Cardinality(LeafKeys(map, l))
    /\ \A i \in Returned : \A l \in Range(calls[i].branches) : l \in BranchesOf(map)
    /\ ( /\ Len(calls) > 0
         /\ Last.from = 0
         /\ Cardinality(DOMAIN Last.batch) = 2
         /\ first_diff_bit(BatchKeys(Last.batch)[1], BatchKeys(Last.batch)[2]) = 0 ) =>
           LET small == BatchKeys(Last.batch)[2]
               large == BatchKeys(Last.batch)[1]
               leaf(k) == LeafLocation(k, DataLocation(k, Encode(Last.batch[k])))
               root == map[Last.res.val].node
           IN /\ root.tag = "b"
              /\ root.split_index = 0
              /\ root.zero = leaf(small)
              /\ root.one = leaf(large)
              /\ root.count = 2

\* C10 witness: a branch was built over a branch kept from the previous root.
C10_Witness ==
    /\ Len(calls) = 2
    /\ Last.from = 1
    /\ Last.res.ok
    /\ \E l \in Range(Last.branches) :
          /\ map[l].node.count = 3
          /\ map[l].node.one \in Range(calls[1].branches)
          /\ map[map[l].node.one].references = 2

DuplicateKey == Err("Attempted to insert item with duplicate keys")

\* The calls made with a repeated key, without a previous root or onto a root
\* that an insert returned.
DupCalls ==
    { i \in DOMAIN calls : /\ calls[i].op = "insert_args"
                           /\ calls[i].batch \in DupArgs
                           /\ calls[i].root # Some(UnknownRoot) }

FailedCalls == { i \in DOMAIN calls : calls[i].op = "insert_args" /\ ~calls[i].res.ok }

\* C12 (failed insert keeps the old root valid): after an insert has failed, with
\* writes buffered or not, get on every root returned before it gives the map it
\* gave before the failed call, at once and after later inserts have committed.
C12_FailedInsertKeepsRoot ==
    \A j \in FailedCalls : \A i \in Returned :
        i < j => get(Db, calls[i].res.val, AllKeys) = get(calls[j].pre, calls[i].res.val, AllKeys)

\* C12 witness: an insert onto a root failed on a repeated key after it had
\* buffered writes, a later insert committed them, and the old root still binds
\* its keys.
C12_Witness ==
    /\ Len(calls) = 3
    /\ calls[1].op = "insert" /\ calls[1].res.ok
    /\ 2 \in FailedCalls
    /\ calls[2].res = DuplicateKey
    /\ calls[2].root = Some(calls[1].res.val)
    /\ calls[2].buffered > 0
    /\ calls[3].op = "insert" /\ calls[3].res.ok
    /\ pending_inserts = << >>
    /\ \E k \in TwoKeys : get(Db, calls[1].res.val, AllKeys).val[k] # None

\* C13 (commit before return): when an insert has returned a root, no write of
\* the call is left in the buffer, and the root node and every node reachable
\* from it are in the committed store.
C13_CommitBeforeReturn ==
    (Len(calls) > 0 /\ Last.op \in {"insert", "insert_args"} /\ Last.res.ok) =>
        /\ pending_inserts = << >>
        /\ Reach(map, {Last.res.val}) \subseteq DOMAIN map

\* Some of these keys is routed, from the branch at l down, to a child that is
\* not in the store.
RECURSIVE RoutedToAbsent(_, _, _)
RoutedToAbsent(m, l, keys) ==
    /\ m[l].node.tag = "b"
    /\ LET b == m[l].node
           descendants == check_descendants(keys, b.split_index, b.key,
                                            calc_min_split_index(keys, b.key))
           sp == split_pairs(descendants, b.split_index)
           lost(child, ks) ==
               Len(ks) > 0 /\ (child \notin DOMAIN m \/ RoutedToAbsent(m, child, ks))
       IN lost(b.zero, sp.zeros) \/ lost(b.one, sp.ones)

\* C14 (missing child in get): a get that starts at a root in the store and is
\* routed by a requested key to a branch child that is not in the store fails
\* with the corrupt-tree error.
C14_MissingChild ==
    (got # None /\ got[1].root \in DOMAIN map
                /\ RoutedToAbsent(map, got[1].root, SortKeys(got[1].keys))) =>
        got[1].res = Err("Corrupt merkle tree")

\* C15 (unknown root in get): a get with a root hash that is not in the store and
\* at least one key returns, without error, the map from exactly the keys asked
\* for to None.
C15_UnknownRoot ==
    (got # None /\ got[1].root \notin DOMAIN map /\ Len(got[1].keys) > 0) =>
        /\ got[1].res.ok
        /\ DOMAIN got[1].res.val = Range(got[1].keys)
        /\ \A k \in Range(got[1].keys) : got[1].res.val[k] = None

\* C15 witness: a tree was built and removed, and a get with its root and two
\* keys it had bound returned the map to None.
C15_Witness ==
    /\ Len(calls) = 2
    /\ calls[1].op = "insert" /\ calls[2].op = "remove"
    /\ map = EmptyMap
    /\ got # None
    /\ got[1].root = calls[1].res.val
    /\ got[1].keys = << <<128, 1>>, <<0, 0>> >>
    /\ Range(got[1].keys) \subseteq DOMAIN calls[1].batch
    /\ got[1].res = Ok([k \in Range(got[1].keys) |-> None])

\* C16 (rejected batches): an insert with no keys, no values or not as many keys
\* as values returns an error and leaves the committed store and the write
\* buffer as they were.
C16_RejectedBatches ==
    (Len(calls) > 0 /\ Last.op = "insert_args" /\ Last.batch \in RejectedArgs) =>
        /\ ~Last.res.ok
        /\ Last.res.err \in { "Keys and values have different lengths",
                              "Keys or values are empty" }
        /\ Db = Last.pre
        /\ before = Last.pre

\* C16 witness: two keys with one value, passed with the root of a stored tree,
\* were refused.
C16_Witness ==
    /\ Len(calls) = 2
    /\ calls[1].res.ok
    /\ Last.op = "insert_args"
    /\ Last.root = Some(calls[1].res.val)
    /\ Last.batch = Args(<< <<128, 0>>, <<128, 1>> >>, << 1 >>)
    /\ Last.res = Err("Keys and values have different lengths")
    /\ map # EmptyMap

\* One call of split_pairs.
SplitCall(keys, bit) == [keys |-> keys, bit |-> bit]

\* The calls of split_pairs that the loop of get makes from this queue on.
RECURSIVE GetSplits(_, _)
GetSplits(db, cell_queue) ==
    IF Len(cell_queue) = 0 THEN {}
    ELSE LET cell == Head(cell_queue)
             rest == Tail(cell_queue)
             n == cell.node.node
         IN IF cell.depth > depth THEN {}
            ELSE IF n.tag = "b"
              THEN (IF Len(GetDescendants(cell)) = 0 THEN {}
                    ELSE { SplitCall(GetDescendants(cell), n.split_index) })
                   \cup GetSplits(db, GetBranchCells(db, cell, rest))
            ELSE IF n.tag = "l" /\ has_node(db, n.data) /\ get_node(db, n.data).node.tag = "d"
              THEN GetSplits(db, rest)
            ELSE {}

\* The calls of split_pairs that the loop of generate_treerefs makes from w on.
RECURSIVE WalkSplits(_, _)
WalkSplits(w, key_map) ==
    IF w.err # "" \/ Len(w.cell_queue) = 0 THEN {}
    ELSE LET tree_cell == Head(w.cell_queue)
             w1 == [w EXCEPT !.cell_queue = Tail(@)]
         IN IF tree_cell.depth > depth THEN {}
            ELSE IF tree_cell.node.node.tag = "b"
              THEN (IF WalkKeeps(tree_cell) THEN {}
                    ELSE { SplitCall(WalkDescendants(tree_cell),
                                     tree_cell.node.node.split_index) })
                   \cup WalkSplits(WalkBranch(w1, tree_cell), key_map)
            ELSE IF tree_cell.node.node.tag = "l"
              THEN WalkSplits(WalkLeaf(w1, tree_cell, key_map), key_map)
            ELSE {}

\* The traversal of the previous root that the last insert made: its start.
LastWalkStart ==
    LET sorted == SortKeys(BatchKeys(Last.batch))
        leaves == insert_leaves(before, sorted, Last.batch, << >>)
    IN [w |-> Walk(leaves.db,
                   << TreeCell(Last.root[1], sorted, get_node(leaves.db, Last.root[1]), 0) >>,
                   << >>, ""),
        key_map |-> KeyMap(sorted, leaves.nodes)]

\* The calls of split_pairs of the operation just made: of the get, or of the
\* insert onto a previous root.
LastSplits ==
    IF got # None
    THEN IF has_node(Db, got[1].root)
         THEN LET sorted == SortKeys(got[1].keys)
              IN GetSplits(Db, << TreeCell(got[1].root, sorted, get_node(Db, got[1].root), 0) >>)
         ELSE {}
    ELSE IF Len(calls) > 0 /\ Last.op = "insert" /\ Last.from # 0
    THEN WalkSplits(LastWalkStart.w, LastWalkStart.key_map)
    ELSE {}

\* bit b mod 8 of byte b div 8 of a key, counted from the most significant bit
BitOf(k, b) == (k[(b \div 8) + 1] \div (2 ^ (7 - (b % 8)))) % 2

\* C17 (key partition): at every call of split_pairs made by get and by the
\* traversal of insert, the keys are sorted and agree on all bits before the
\* split bit, and the result is a prefix and a suffix of them whose concatenation
\* is the input, the zeros being exactly the keys whose bit at the split index is 0.
C17_KeyPartition ==
    \A c \in LastSplits :
        LET sp == split_pairs(c.keys, c.bit)
        IN /\ \A i, j \in DOMAIN c.keys : i < j => ~KeyLess(c.keys[j], c.keys[i])
           /\ \A i, j \in DOMAIN c.keys : first_diff_bit(c.keys[i], c.keys[j]) >= c.bit
           /\ sp.zeros \o sp.ones = c.keys
           /\ \A i \in DOMAIN c.keys : i <= Len(sp.zeros) <=> BitOf(c.keys[i], c.bit) = 0

\* C17 witness: an insert onto a root met a branch where one side got no key,
\* and the get after it met a branch, with fewer keys than were asked for, where
\* both sides got one.
C17_Witness ==
    /\ got # None
    /\ Len(calls) = 2 /\ Last.op = "insert" /\ Last.from = 1
    /\ \E c \in LastSplits :
          /\ Len(split_pairs(c.keys, c.bit).zeros) > 0
          /\ Len(split_pairs(c.keys, c.bit).ones) > 0
          /\ Len(got[1].keys) > Len(c.keys)
    /\ \E c \in WalkSplits(LastWalkStart.w, LastWalkStart.key_map) :
          /\ Len(split_pairs(c.keys, c.bit).ones) = 0
          /\ Len(c.keys) < Cardinality(DOMAIN Last.batch)

\* The tree references Phase 3 of the last insert works on, sorted, and how many
\* of them the traversal of the previous root gave.
LastRefs ==
    LET sorted == SortKeys(BatchKeys(Last.batch))
        leaves == insert_leaves(before, sorted, Last.batch, << >>)
        new_refs == [i \in DOMAIN sorted |-> TreeRef(sorted[i], leaves.nodes[i], 1, 1)]
        walk == IF Last.root = None THEN Walk(leaves.db, << >>, << >>, "")
                ELSE generate_treerefs(leaves.db, Last.root[1], sorted,
                                       KeyMap(sorted, leaves.nodes))
    IN [refs |-> SortRefs(new_refs \o walk.proof_nodes), kept |-> Len(walk.proof_nodes)]

\* s_i for the adjacent pairs (t_i, t_i+1), i counted from 1.
SplitBits(refs) ==
    [i \in 1..(Len(refs) - 1) |-> SplitBit(refs[i].key, refs[i + 1].key, 0)]

\* The state right after an insert that returned a root.
LastBuilt == got = None /\ Len(calls) > 0 /\ Last.op = "insert" /\ Last.res.ok

\* The tree references have pairwise distinct keys.
DistinctKeys(refs) == \A i, j \in DOMAIN refs : i # j => refs[i].key # refs[j].key

\* C18 as stated (distinct split bits): the split bits of the adjacent pairs of
\* the sorted tree references, whose keys are pairwise distinct, are pairwise
\* distinct.
C18_DistinctSplitBits ==
    LastBuilt =>
        LET refs == LastRefs.refs
            s == SplitBits(refs)
        IN DistinctKeys(refs) => \A i, j \in DOMAIN s : i # j => s[i] # s[j]

\* C18 amended (split bits): every split bit is the index of a bit of the key,
\* the first one where the two neighbours differ, and two adjacent pairs with the
\* same split bit have between them a pair with a strictly smaller split bit.
C18_EqualSplitBitsSeparated ==
    LastBuilt =>
        LET refs == LastRefs.refs
            s == SplitBits(refs)
        IN DistinctKeys(refs) =>
           /\ \A i \in DOMAIN s :
                 /\ s[i] \in 0..(KEY_LEN * 8 - 1)
                 /\ s[i] = first_diff_bit(refs[i].key, refs[i + 1].key)
                 /\ KeyLess(refs[i].key, refs[i + 1].key)
           /\ \A i, j \in DOMAIN s :
                 (i < j /\ s[i] = s[j]) => \E k \in (i + 1)..(j - 1) : s[k] < s[i]

\* C18 witness: an insert onto a root whose tree references, two of them from
\* the traversal, have the same split bit for two of their adjacent pairs.
C18_Witness ==
    /\ LastBuilt /\ Last.from # 0
    /\ LET last == LastRefs
           s == SplitBits(last.refs)
       IN /\ last.kept = 2 /\ DistinctKeys(last.refs)
          /\ Len(s) = 3 /\ s[1] = s[3] /\ s[2] < s[1]

\* A merged group of tree references: the original positions lo..hi (counted
\* from 0) and the reference that stands for them.
Group(lo, hi, ref) == [lo |-> lo, hi |-> hi, ref |-> ref]

\* Every tree reference a group of its own.
Singletons(tree_refs) ==
    [p \in 0..(Len(tree_refs) - 1) |-> Group(p, p, tree_refs[p + 1])]

\* The groups after the groups of positions index and index + 1 are joined.
Joined(groups, index) ==
    LET left == groups[index]
        right == groups[index + 1]
        both == Group(left.lo, right.hi, MergedRef(left.ref, right.ref))
    IN [p \in DOMAIN groups |-> IF p \in left.lo..right.hi THEN both ELSE groups[p]]

\* The pops of the loop of create_tree from this queue on: for each, the index,
\* the slot the lookahead ended on (-1 for a read outside the vector), the two
\* groups next to the pair, and what slot index and the selected slot hold.
RECURSIVE Pops(_, _, _)
Pops(tree_refs, queue, groups) ==
    IF Len(queue) = 0 THEN << >>
    ELSE LET index == Head(queue).index
             at == Lookahead(tree_refs, index)
             pop == [index |-> index, at |-> at,
                     left |-> groups[index], right |-> groups[index + 1],
                     slot |-> tree_refs[index + 1],
                     selected |-> IF at = -1 THEN None ELSE Some(tree_refs[at + 1])]
         IN IF at = -1 THEN << pop >>
            ELSE << pop >> \o Pops(Overwrite(tree_refs, index, at), Tail(queue),
                                   Joined(groups, index))

\* The pops of Phase 3 of the last insert.
LastPops ==
    LET refs == LastRefs.refs
    IN IF Len(refs) < 2 THEN << >>
       ELSE Pops(refs, generate_tree_ref_queue(refs).queue, Singletons(refs))

\* C19 (merge partner selection): at every pop with index i, slot i holds the
\* reference of the merged group that ends at position i, the lookahead stays
\* inside the vector, and the slot it selects holds the reference of the merged
\* group that starts at position i + 1, so the branch written joins these two
\* groups; the branch of the last pop joins all tree references and is the root
\* that insert returns.
C19_MergePartner ==
    LastBuilt =>
        LET refs == LastRefs.refs
            pops == LastPops
        IN (DistinctKeys(refs) /\ Len(refs) > 1) =>
           /\ Len(pops) = Len(refs) - 1 /\ Len(Last.branches) = Len(pops)
           /\ \A n \in DOMAIN pops :
                 /\ pops[n].left.hi = pops[n].index
                 /\ pops[n].slot = pops[n].left.ref
                 /\ pops[n].at \in (pops[n].index + 1)..(Len(refs) - 1)
                 /\ pops[n].right.lo = pops[n].index + 1
                 /\ pops[n].selected = Some(pops[n].right.ref)
                 /\ Last.branches[n] =
                        BranchLocation(pops[n].left.ref.location, pops[n].right.ref.location)
           /\ LET last == pops[Len(pops)]
              IN /\ last.left.lo = 0 /\ last.right.hi = Len(refs) - 1
                 /\ Last.res.val = MergedRef(last.left.ref, last.right.ref).location

\* C19 witness: an insert onto a root with five tree references, some of them
\* from the traversal, two of whose adjacent pairs have the same split bit; one
\* of its pops joins two groups merged before and finds its partner at the end
\* of a group of three, after two jumps of the lookahead.
C19_Witness ==
    /\ LastBuilt /\ Last.from # 0
    /\ LET last == LastRefs
           s == SplitBits(last.refs)
           pops == LastPops
       IN /\ Len(last.refs) = 5 /\ DistinctKeys(last.refs) /\ last.kept > 0
          /\ \E i, j \in DOMAIN s : i # j /\ s[i] = s[j]
          /\ \E n \in DOMAIN pops :
                /\ pops[n].left.lo < pops[n].left.hi
                /\ pops[n].right.hi - pops[n].right.lo = 2
                /\ pops[n].at = pops[n].right.hi
                /\ pops[n].at > pops[n].index + 2

\* The leaves that the loop of generate_treerefs reaches from w on, each with
\* the state of the traversal when it is taken from the queue.
RECURSIVE WalkLeaves(_, _)
WalkLeaves(w, key_map) ==
    IF w.err # "" \/ Len(w.cell_queue) = 0 THEN {}
    ELSE LET tree_cell == Head(w.cell_queue)
             w1 == [w EXCEPT !.cell_queue = Tail(@)]
         IN IF tree_cell.depth > depth THEN {}
            ELSE IF tree_cell.node.node.tag = "b"
              THEN WalkLeaves(WalkBranch(w1, tree_cell), key_map)
            ELSE IF tree_cell.node.node.tag = "l"
              THEN { [cell |-> tree_cell, w |-> w1] }
                   \cup WalkLeaves(WalkLeaf(w1, tree_cell, key_map), key_map)
            ELSE {}

\* The state right after an insert onto a root that the store held.
LastWalked ==
    /\ got = None /\ Len(calls) > 0 /\ Last.op = "insert"
    /\ Last.root # None /\ has_node(before, Last.root[1])

\* The leaf of visit v has its references raised by one once the buffer is written.
Incremented(v, key_map) ==
    LET after == WalkLeaf(v.w, v.cell, key_map)
        l == v.cell.location
    IN /\ has_node(v.w.db, l)
       /\ batch_write(after.db).map[l] =
             Node(get_node(v.w.db, l).node, get_node(v.w.db, l).references + 1)

\* The leaf of visit v becomes the next proof node, with node_count 1.
Emitted(v, key_map) ==
    LET after == WalkLeaf(v.w, v.cell, key_map)
    IN after.proof_nodes =
          Append(v.w.proof_nodes, TreeRef(v.cell.node.node.key, v.cell.location, 1, 1))

\* The leaf of visit v is passed over: nothing is written and nothing emitted.
PassedOver(v, key_map) ==
    LET after == WalkLeaf(v.w, v.cell, key_map)
    IN after.db = v.w.db /\ after.proof_nodes = v.w.proof_nodes

\* C20 as stated (frontier leaves): every leaf reached whose key is not in the
\* batch, or is in the batch with a new leaf location, has its references raised
\* by one and is emitted as a tree reference with node_count 1.
C20_FrontierLeaves ==
    LastWalked =>
        LET start == LastWalkStart
        IN \A v \in WalkLeaves(start.w, start.key_map) :
              LET key == v.cell.node.node.key
              IN (key \notin DOMAIN start.key_map
                    \/ start.key_map[key] # v.cell.location) =>
                 Incremented(v, start.key_map) /\ Emitted(v, start.key_map)

\* C20 amended (frontier leaves): a leaf reached whose key is not in the batch
\* has its references raised by one and is emitted as a tree reference with
\* node_count 1, and the returned tree holds it with that count; a leaf whose key
\* is in the batch with a new leaf location is passed over, and the returned tree
\* does not hold it; a leaf whose key is in the batch with the same leaf location
\* has its references raised by one and is not emitted.
C20_FrontierLeavesKept ==
    LastWalked =>
        LET start == LastWalkStart
            km == start.key_map
        IN \A v \in WalkLeaves(start.w, km) :
              LET key == v.cell.node.node.key
                  l == v.cell.location
                  after == WalkLeaf(v.w, v.cell, km)
              IN IF key \notin DOMAIN km
                 THEN /\ Incremented(v, km) /\ Emitted(v, km)
                      /\ Last.res.ok =>
                            /\ l \in Reach(map, {Last.res.val})
                            /\ map[l].references = before.map[l].references + 1
                 ELSE IF km[key] # l
                 THEN /\ PassedOver(v, km)
                      /\ Last.res.ok =>
                            /\ l \notin Reach(map, {Last.res.val})
                            /\ map[l] = before.map[l]
                 ELSE /\ Incremented(v, km)
                      /\ after.proof_nodes = v.w.proof_nodes

\* C20 witness: an insert onto a root reached a leaf whose key is not in the
\* batch and a leaf whose key the batch gives a new value, and returned a root.
C20_Witness ==
    /\ LastWalked /\ Last.res.ok
    /\ LET start == LastWalkStart
           visits == WalkLeaves(start.w, start.key_map)
       IN /\ \E v \in visits : v.cell.node.node.key \notin DOMAIN start.key_map
          /\ \E v \in visits :
                /\ v.cell.node.node.key \in DOMAIN start.key_map
                /\ start.key_map[v.cell.node.node.key] # v.cell.location

\* How many times e is in the sequence s.
Count(s, e) == Cardinality({ i \in DOMAIN s : s[i] = e })

\* The same buffered writes, whatever their order.
SameWrites(s, t) ==
    /\ Len(s) = Len(t)
    /\ \A e \in Range(s) \cup Range(t) : Count(s, e) = Count(t, e)

\* The parallel insert_leaves has returned.
Collected ==
    ~Running /\ Len(calls) > 0 /\ Last.op = "insert_leaves" /\ Last.res.val # None

\* insert_leaves without use_rayon, from the database the parallel one started on.
Sequential == insert_leaves(before, SortKeys(BatchKeys(Last.batch)), Last.batch, << >>)

\* C21 (parallel leaf materialization): while the tasks run, the data and leaf
\* locations of the keys of the batch are pairwise distinct, so no two tasks
\* read or write the same location; and when all have ended, in whatever order
\* their reads and writes were taken, the buffered writes (locations, nodes and
\* references) and the list of leaf locations are those of the sequential loop,
\* and the committed nodes are untouched.
C21_ParallelLeaves ==
    /\ Running =>
          \A k1, k2 \in DOMAIN tasks :
             /\ tasks[k1].data_node_location # tasks[k2].leaf_node_location
             /\ k1 # k2 =>
                   /\ tasks[k1].data_node_location # tasks[k2].data_node_location
                   /\ tasks[k1].leaf_node_location # tasks[k2].leaf_node_location
    /\ Collected =>
          LET seq == Sequential
          IN /\ Last.res.val = Some(seq.nodes)
             /\ SameWrites(pending_inserts, seq.db.pending_inserts)
             /\ batch_write(Db) = batch_write(seq.db)
             /\ map = before.map

\* C21 witness: over a store that holds a tree, a batch of three keys was
\* materialized with the writes of the tasks in another order than the sequential
\* one; one leaf was in the store before and one was not.
C21_Witness ==
    /\ Collected
    /\ Len(calls) = 2
    /\ Cardinality(DOMAIN Last.batch) = 3
    /\ pending_inserts # Sequential.db.pending_inserts
    /\ \E i, j \in DOMAIN pending_inserts :
          /\ pending_inserts[i][2].node.tag = "l" /\ pending_inserts[i][2].references = 2
          /\ pending_inserts[j][2].node.tag = "l" /\ pending_inserts[j][2].references = 1
          /\ i < j /\ KeyLess(pending_inserts[j][2].node.key, pending_inserts[i][2].node.key)

=============================================================================
